---- MODULE Spec2Model ----
(***************************************************************************)
(* Workflow execution engine and scheduler of myappstatus.                 *)
(*                                                                         *)
(* The stored documents (ProcessInstance, StepInstance, ProcessHistory,    *)
(* Notification) are the state; every engine call, controller handler and  *)
(* scheduler pass is one action that runs the handler to its end (or to    *)
(* the exception that ends it).  Time is counted in hours.                 *)
(***************************************************************************)
EXTENDS Integers, Sequences, FiniteSets, Bags, TLC

VARIABLES procs, steps, history, notifs, now, activeUsers, last,
          sinkUp, calls, pass, route,
          jobs, cronTasks, isInitialized, enableEmailNotifications

\* the scheduler service object and the configuration it reads
sched == <<jobs, cronTasks, isInitialized, enableEmailNotifications>>

\* what the handlers of the engine and of the controllers never write
others == <<sinkUp, calls, pass, route, sched>>

vars == <<procs, steps, history, notifs, now, activeUsers, last, others>>

-----------------------------------------------------------------------------
(* Bounds of the model *)

MaxTime == 4
MaxAdminOps == 1
\* a request served alongside another is accepted while the store holds
\* fewer StepInstances than this
MaxRaceSteps == 3
\* longest nextSteps list given to determineNextSteps on its own
MaxNextSteps == 3
\* cron tasks that may run at one time under one job name
MaxCronTasks == 2

-----------------------------------------------------------------------------
(* Values *)

TickHours == 2

Null == "null"
NoDate == -1

ProcIds == {"p1"}
\* u1 and u2 are plain users; the routes let only a manager or admin call
\* suspend, resume, assign, reassign, escalate and skip
Actors == {"u1", "u2"}
Managers == {"m1"}
Decisions == {Null, "approve", "reject", "unknown"}

\* User directory: role of every user id the model uses
Role == [u \in {"u1", "u2", "m1", "a1"} |->
           IF u = "m1" THEN "manager" ELSE IF u = "a1" THEN "admin" ELSE "user"]

\* Every process instance of the model was created by u1
InitiatedBy == "u1"

\* the requests in flight: two callers, each idle or between the awaits of a call;
\* pass is the scheduler pass in flight, idle or between its query and the
\* end of its loop
Callers == {"c1", "c2"}
Idle == [pc |-> "idle"]

\* no call of determineNextSteps was made yet
NoRoute == [called |-> FALSE]

\* SchedulerService.constructor: this.jobs = new Map(); jobs[n] tells whether
\* the map has an entry for the name n
JobNames == {"overdueTasksCheck", "taskEscalation", "dailyCleanup",
             "notificationDigest", "healthCheck"}
NoJobs == [n \in JobNames |-> FALSE]

\* cronTasks[n] is the number of started cron tasks that were scheduled for
\* the name n; a task is stopped only by stopJob and stopAll, which take it
\* from the map as well, so the task of a map entry is one of them
NoTasks == [n \in JobNames |-> 0]

-----------------------------------------------------------------------------
(* Process templates *)

StepDef(id, type, atype, assignees, next, tl, auto) ==
  [stepId |-> id, type |-> type, assigneeType |-> atype, assignees |-> assignees,
   nextSteps |-> next, timeLimit |-> tl, autoComplete |-> auto]

Tr(c, s) == [condition |-> c, stepId |-> s]

Templates ==
  [ linear |->
      [steps |-> << StepDef("S", "user_task", "user", <<"u1">>, <<Tr("", "E")>>, 1, FALSE),
                    StepDef("E", "end", "auto", <<>>, <<>>, 0, FALSE) >>,
       startStep |-> "S", endSteps |-> {"E"}],
    decision |->
      [steps |-> << StepDef("D", "decision", "role", <<"clerk">>,
                            <<Tr("approve", "A"), Tr("reject", "B")>>, 0, FALSE),
                    StepDef("A", "user_task", "user", <<"u1">>, <<Tr("", "E")>>, 0, FALSE),
                    StepDef("B", "user_task", "user", <<"u2">>, <<Tr("", "E")>>, 0, FALSE),
                    StepDef("E", "end", "auto", <<>>, <<>>, 0, FALSE) >>,
       startStep |-> "D", endSteps |-> {"E"}],
    fanout |->
      [steps |-> << StepDef("S", "user_task", "user", <<"u1">>,
                            <<Tr("", "A"), Tr("true", "B")>>, 0, FALSE),
                    StepDef("A", "user_task", "user", <<"u1">>, <<Tr("", "E")>>, 0, FALSE),
                    StepDef("B", "user_task", "user", <<"u2">>, <<Tr("", "E")>>, 0, FALSE),
                    StepDef("E", "end", "auto", <<>>, <<>>, 0, FALSE) >>,
       startStep |-> "S", endSteps |-> {"E"}],
    twice |->
      [steps |-> << StepDef("S", "user_task", "department", <<"ops">>,
                            <<Tr("", "A"), Tr("", "A")>>, 0, FALSE),
                    StepDef("A", "user_task", "user", <<"u2">>, <<Tr("", "E")>>, 0, FALSE),
                    StepDef("E", "end", "auto", <<>>, <<>>, 0, FALSE) >>,
       startStep |-> "S", endSteps |-> {"E"}],
    chain |->
      [steps |-> << StepDef("S", "user_task", "user", <<"u1">>, <<Tr("", "A")>>, 0, FALSE),
                    StepDef("A", "user_task", "user", <<"u1">>, <<Tr("", "B")>>, 0, FALSE),
                    StepDef("B", "user_task", "user", <<"u2">>, <<Tr("", "E")>>, 0, FALSE),
                    StepDef("E", "end", "auto", <<>>, <<>>, 0, FALSE) >>,
       startStep |-> "S", endSteps |-> {"E"}],
    relay |->
      [steps |-> << StepDef("S", "user_task", "user", <<"u1">>, <<Tr("", "V")>>, 0, FALSE),
                    StepDef("V", "service_task", "auto", <<>>, <<Tr("", "A")>>, 0, FALSE),
                    StepDef("A", "user_task", "user", <<"u2">>, <<Tr("", "E")>>, 0, FALSE),
                    StepDef("E", "end", "auto", <<>>, <<>>, 0, FALSE) >>,
       startStep |-> "S", endSteps |-> {"E"}],
    service |->
      [steps |-> << StepDef("V", "service_task", "auto", <<>>, <<Tr("", "A")>>, 0, FALSE),
                    StepDef("A", "user_task", "user", <<"u1">>, <<Tr("", "E")>>, 0, TRUE),
                    StepDef("E", "end", "auto", <<>>, <<>>, 0, FALSE) >>,
       startStep |-> "V", endSteps |-> {"E"}] ]

TemplateIds == DOMAIN Templates

\* the id of a template that was deleted after an instance of it was created
DeletedTemplate == "deleted"

\* an id that no process instance has
UnknownProcIds == {"p0"}

NoStep == [stepId |-> Null]

\* template.steps.find(s => s.stepId === id)
FindStep(template, id) ==
  IF \E i \in 1..Len(template.steps) : template.steps[i].stepId = id
  THEN template.steps[CHOOSE i \in 1..Len(template.steps) :
                        /\ template.steps[i].stepId = id
                        /\ \A j \in 1..(i-1) : template.steps[j].stepId # id]
  ELSE NoStep

-----------------------------------------------------------------------------
(* The document store as a value, so that a handler is a composition *)

\* thrown records that an awaited write rejected and the exception left the
\* function that was running
Db == [procs |-> procs, steps |-> steps, history |-> history, notifs |-> notifs,
       thrown |-> FALSE]

Commit(db) ==
  /\ procs' = db.procs
  /\ steps' = db.steps
  /\ history' = db.history
  /\ notifs' = db.notifs

HistoryEntry(pid, sid, action, by, from, to) ==
  [processInstanceId |-> pid, stepInstanceId |-> sid, action |-> action,
   performedBy |-> by, fromStatus |-> from, toStatus |-> to]

\* ProcessHistory.create: the schema requires performedBy
ProcessHistoryCreate(db, e) ==
  IF e.performedBy = Null
  THEN [ok |-> FALSE, db |-> db]
  ELSE [ok |-> TRUE, db |-> [db EXCEPT !.history = @ (+) SetToBag({e})]]

LogHistory(db, e) == ProcessHistoryCreate(db, e).db

Notification(userId, type, pid, sid, priority) ==
  [userId |-> userId, type |-> type, relatedProcess |-> pid, relatedStep |-> sid,
   priority |-> priority]

NotificationTypes ==
  {"task_assigned", "task_completed", "task_overdue", "task_escalated",
   "process_started", "process_completed", "process_cancelled", "comment_added",
   "system_notification"}

\* Notification.create: the schema requires userId and a type of the enum;
\* the write rejects as well while the notification collection is unavailable
NotificationCreate(db, n) ==
  IF n.userId = Null \/ n.type \notin NotificationTypes \/ ~sinkUp
  THEN [ok |-> FALSE, db |-> db]
  ELSE [ok |-> TRUE, db |-> [db EXCEPT !.notifs = @ (+) SetToBag({n})]]

\* what the last call was and how it ended
Reply(op, result) == [op |-> op, result |-> result]

\* History rows written by the handlers that can be repeated without end
AdminActions ==
  {"step_assigned", "step_reassigned", "process_suspended", "process_resumed"}

RECURSIVE SumCopies(_, _)
SumCopies(B, S) ==
  IF S = {} THEN 0
  ELSE LET e == CHOOSE x \in S : TRUE
       IN CopiesIn(e, B) + SumCopies(B, S \ {e})

AdminOps ==
  SumCopies(history, {e \in BagToSet(history) :
                        \/ e.action \in AdminActions
                        \/ e.action = "step_escalated" /\ e.performedBy # Null})

AdminRoom == AdminOps < MaxAdminOps


-----------------------------------------------------------------------------
(* Workflow engine *)

\* evaluateCondition taking every non-empty condition as true
evaluateCondition_Truthy(condition, decision) ==
  IF condition = "true" \/ condition = ""
  THEN TRUE
  ELSE IF condition # Null THEN TRUE ELSE FALSE

\* what JavaScript takes as true in a condition: not null, not undefined
\* (both Null here) and not the empty string
Truthy(x) == x \notin {Null, ""}

\* evaluateCondition without the comparison with the decision
evaluateCondition_LiteralsOnly(condition, decision) ==
  IF condition = "true" \/ condition = ""
  THEN TRUE
  ELSE FALSE

evaluateCondition(condition, decision) ==
  IF condition = "true" \/ condition = ""
  THEN TRUE
  ELSE IF Truthy(decision) /\ condition = decision THEN TRUE ELSE FALSE

RECURSIVE CollectNext(_, _)
CollectNext(ns, decision) ==
  IF ns = <<>> THEN <<>>
  ELSE LET h == Head(ns)
           rest == CollectNext(Tail(ns), decision)
       IN IF ~Truthy(h.condition) \/ evaluateCondition(h.condition, decision)
          THEN <<h.stepId>> \o rest
          ELSE rest

\* determineNextSteps without the default path
determineNextSteps_NoDefault(templateStep, decision) ==
  LET ns == templateStep.nextSteps
      r1 == CollectNext(ns, decision)
      hit == {i \in 1..Len(ns) : ns[i].condition = decision}
      r2 == IF Len(r1) = 0 /\ templateStep.type = "decision" /\ Truthy(decision) /\ hit # {}
            THEN <<ns[CHOOSE i \in hit : \A j \in hit : i <= j].stepId>>
            ELSE r1
  IN IF Len(ns) = 0 THEN <<>> ELSE r2

determineNextSteps(templateStep, decision) ==
  LET ns == templateStep.nextSteps
      r1 == CollectNext(ns, decision)
      hit == {i \in 1..Len(ns) : ns[i].condition = decision}
      r2 == IF Len(r1) = 0 /\ templateStep.type = "decision" /\ Truthy(decision) /\ hit # {}
            THEN <<ns[CHOOSE i \in hit : \A j \in hit : i <= j].stepId>>
            ELSE r1
      r3 == IF Len(r2) = 0 /\ Len(ns) > 0 THEN <<ns[1].stepId>> ELSE r2
  IN IF Len(ns) = 0 THEN <<>> ELSE r3

sendTaskNotification(db, sid) ==
  NotificationCreate(db, Notification(db.steps[sid].assignedTo, "task_assigned",
                                      db.steps[sid].processInstanceId, sid, "medium")).db

createStepInstance(db, pid, templateStep, userId) ==
  LET auto == templateStep.type = "service_task" \/ templateStep.autoComplete
      first == IF Len(templateStep.assignees) > 0 THEN templateStep.assignees[1] ELSE Null
      si == [processInstanceId |-> pid,
             stepId |-> templateStep.stepId,
             type |-> templateStep.type,
             status |-> IF auto THEN "completed" ELSE "pending",
             assignedTo |-> IF templateStep.assigneeType = "user" THEN first ELSE Null,
             assignedRole |-> IF templateStep.assigneeType = "role" THEN first ELSE Null,
             assignedDepartment |->
               IF templateStep.assigneeType = "department" THEN first ELSE Null,
             dueDate |-> IF templateStep.timeLimit # 0
                         THEN now + templateStep.timeLimit ELSE NoDate,
             escalated |-> FALSE,
             escalationLevel |-> 0,
             escalationHistory |-> <<>>,
             completedBy |-> IF auto THEN userId ELSE Null,
             decision |-> Null]
      sid == Len(db.steps) + 1
      db1 == [db EXCEPT !.steps = Append(@, si)]
      db2 == LogHistory(db1, HistoryEntry(pid, sid, "step_created", userId, Null, si.status))
  IN IF templateStep.type = "user_task" /\ si.assignedTo # Null
     THEN sendTaskNotification(db2, sid)
     ELSE db2

\* completeProcess without the reset of currentSteps
completeProcess_KeepsSteps(db, pi, pid, userId) ==
  LET saved == [pi EXCEPT !.status = "completed", !.endDate = now,
                          !.completionPercentage = 100]
      db1 == [db EXCEPT !.procs[pid] = saved]
      db2 == LogHistory(db1, HistoryEntry(pid, 0, "process_completed", userId,
                                          "active", "completed"))
      sent == NotificationCreate(db2, Notification(InitiatedBy, "process_completed",
                                                   pid, 0, "medium"))
  \* the catch block logs and throws again
  IN IF sent.ok THEN sent.db ELSE [sent.db EXCEPT !.thrown = TRUE]

completeProcess(db, pi, pid, userId) ==
  LET saved == [pi EXCEPT !.status = "completed", !.endDate = now,
                          !.completionPercentage = 100, !.currentSteps = <<>>]
      db1 == [db EXCEPT !.procs[pid] = saved]
      db2 == LogHistory(db1, HistoryEntry(pid, 0, "process_completed", userId,
                                          "active", "completed"))
      sent == NotificationCreate(db2, Notification(InitiatedBy, "process_completed",
                                                   pid, 0, "medium"))
  \* the catch block logs and throws again
  IN IF sent.ok THEN sent.db ELSE [sent.db EXCEPT !.thrown = TRUE]

\* updateCompletionPercentage rounding down
updateCompletionPercentage_Floor(db, pi, pid) ==
  LET mine == {i \in 1..Len(db.steps) : db.steps[i].processInstanceId = pid}
      totalSteps == Cardinality(mine)
      completedSteps == Cardinality({i \in mine : db.steps[i].status = "completed"})
      pct == IF totalSteps > 0 THEN (100 * completedSteps) \div totalSteps ELSE 0
  IN [db EXCEPT !.procs[pid].currentSteps = pi.currentSteps,
                !.procs[pid].completionPercentage = pct]

\* processInstanceSchema.methods.updateCompletionPercentage
updateCompletionPercentage(db, pi, pid) ==
  LET mine == {i \in 1..Len(db.steps) : db.steps[i].processInstanceId = pid}
      totalSteps == Cardinality(mine)
      completedSteps == Cardinality({i \in mine : db.steps[i].status = "completed"})
      pct == IF totalSteps > 0
             THEN (200 * completedSteps + totalSteps) \div (2 * totalSteps)
             ELSE 0
  \* save() writes the paths that were modified in memory
  IN [db EXCEPT !.procs[pid].currentSteps = pi.currentSteps,
                !.procs[pid].completionPercentage = pct]

\* the loop of processStepCompletion over nextStepIds; acc = [db, cur]
RECURSIVE CreateNextSteps(_, _, _, _, _)
CreateNextSteps(acc, pid, template, ids, userId) ==
  IF ids = <<>> THEN acc
  ELSE LET nextTemplateStep == FindStep(template, Head(ids))
           acc1 == IF nextTemplateStep # NoStep
                   THEN [db |-> createStepInstance(acc.db, pid, nextTemplateStep, userId),
                         cur |-> Append(acc.cur, Head(ids))]
                   ELSE acc
       IN CreateNextSteps(acc1, pid, template, Tail(ids), userId)

\* processStepCompletion up to the last createStepInstance: stepInstance and
\* pi are the documents the caller holds in memory
RouteAndCreate(db, stepInstance, pi, userId) ==
  LET pid == stepInstance.processInstanceId
      template == Templates[pi.processTemplateId]
      templateStep == FindStep(template, stepInstance.stepId)
      cur0 == SelectSeq(pi.currentSteps, LAMBDA x : x # stepInstance.stepId)
      nextStepIds == determineNextSteps(templateStep, stepInstance.decision)
      acc == CreateNextSteps([db |-> db, cur |-> cur0], pid, template, nextStepIds, userId)
  IN [db |-> acc.db, cur |-> acc.cur, nextStepIds |-> nextStepIds]

\* processStepCompletion on the documents the caller holds; pi is saved at the end
processStepCompletionOf(db, stepInstance, pi, userId) ==
  LET pid == stepInstance.processInstanceId
      template == Templates[pi.processTemplateId]
      made == RouteAndCreate(db, stepInstance, pi, userId)
      nextStepIds == made.nextStepIds
      pi1 == [pi EXCEPT !.currentSteps = made.cur]
  IN IF Len(nextStepIds) = 0
        \/ \A i \in 1..Len(nextStepIds) : nextStepIds[i] \in template.endSteps
     THEN completeProcess(made.db, pi1, pid, userId)
     ELSE updateCompletionPercentage(made.db, pi1, pid)

\* a call made right after the step document was saved: the document in
\* memory is the stored one
processStepCompletion(db, sid, pi, userId) ==
  processStepCompletionOf(db, db.steps[sid], pi, userId)

\* canComplete without the status test
canComplete_AnyStatus(si, userId) ==
  IF si.assignedTo # Null /\ si.assignedTo # userId THEN FALSE
  ELSE TRUE

\* canComplete without the assignee comparison
canComplete_AnyUser(si, userId) ==
  IF si.status # "in_progress" THEN FALSE ELSE TRUE

\* stepInstanceSchema.methods.canComplete
canComplete(si, userId) ==
  IF si.status # "in_progress" THEN FALSE
  ELSE IF si.assignedTo # Null /\ si.assignedTo # userId THEN FALSE
  ELSE TRUE

\* startProcess without the assignment of currentSteps
startProcess_KeepsCurrentSteps(pid, userId) ==
  /\ LET instance == procs[pid]
         template == Templates[instance.processTemplateId]
         startStep == FindStep(template, template.startStep)
         inst1 == [instance EXCEPT !.status = "active"]
         db1 == createStepInstance(Db, pid, startStep, userId)
         db2 == [db1 EXCEPT !.procs[pid] = inst1]
         db3 == LogHistory(db2, HistoryEntry(pid, 0, "process_started", userId,
                                             "draft", "active"))
     IN IF pid \notin DOMAIN procs
        THEN /\ last' = Reply("startProcess", "NotFound")
             /\ UNCHANGED <<procs, steps, history, notifs>>
        ELSE IF instance.status # "draft"
        THEN /\ last' = Reply("startProcess", "InvalidState")
             /\ UNCHANGED <<procs, steps, history, notifs>>
        \* populate() leaves null for a template that was deleted, and
        \* template.steps throws a TypeError before anything is saved
        ELSE IF instance.processTemplateId \notin TemplateIds
        THEN /\ last' = Reply("startProcess", "Error")
             /\ UNCHANGED <<procs, steps, history, notifs>>
        ELSE IF startStep = NoStep
        THEN /\ last' = Reply("startProcess", "InvalidState")
             /\ UNCHANGED <<procs, steps, history, notifs>>
        ELSE /\ last' = Reply("startProcess", "ok")
             /\ Commit(db3)
  /\ UNCHANGED <<now, activeUsers, others>>

\* startProcess without the draft check
startProcess_NoStatusCheck(pid, userId) ==
  /\ LET instance == procs[pid]
         template == Templates[instance.processTemplateId]
         startStep == FindStep(template, template.startStep)
         inst1 == [instance EXCEPT !.status = "active"]
         db1 == createStepInstance(Db, pid, startStep, userId)
         db2 == [db1 EXCEPT !.procs[pid] = [inst1 EXCEPT !.currentSteps = <<startStep.stepId>>]]
         db3 == LogHistory(db2, HistoryEntry(pid, 0, "process_started", userId,
                                             "draft", "active"))
     IN IF pid \notin DOMAIN procs
        THEN /\ last' = Reply("startProcess", "NotFound")
             /\ UNCHANGED <<procs, steps, history, notifs>>
        ELSE IF instance.processTemplateId \notin TemplateIds
        THEN /\ last' = Reply("startProcess", "Error")
             /\ UNCHANGED <<procs, steps, history, notifs>>
        ELSE IF startStep = NoStep
        THEN /\ last' = Reply("startProcess", "InvalidState")
             /\ UNCHANGED <<procs, steps, history, notifs>>
        ELSE /\ last' = Reply("startProcess", "ok")
             /\ Commit(db3)
  /\ UNCHANGED <<now, activeUsers, others>>

startProcess(pid, userId) ==
  /\ LET instance == procs[pid]
         template == Templates[instance.processTemplateId]
         startStep == FindStep(template, template.startStep)
         inst1 == [instance EXCEPT !.status = "active"]
         db1 == createStepInstance(Db, pid, startStep, userId)
         db2 == [db1 EXCEPT !.procs[pid] = [inst1 EXCEPT !.currentSteps = <<startStep.stepId>>]]
         db3 == LogHistory(db2, HistoryEntry(pid, 0, "process_started", userId,
                                             "draft", "active"))
     IN IF pid \notin DOMAIN procs
        THEN /\ last' = Reply("startProcess", "NotFound")
             /\ UNCHANGED <<procs, steps, history, notifs>>
        ELSE IF instance.status # "draft"
        THEN /\ last' = Reply("startProcess", "InvalidState")
             /\ UNCHANGED <<procs, steps, history, notifs>>
        \* populate() leaves null for a template that was deleted, and
        \* template.steps throws a TypeError before anything is saved
        ELSE IF instance.processTemplateId \notin TemplateIds
        THEN /\ last' = Reply("startProcess", "Error")
             /\ UNCHANGED <<procs, steps, history, notifs>>
        ELSE IF startStep = NoStep
        THEN /\ last' = Reply("startProcess", "InvalidState")
             /\ UNCHANGED <<procs, steps, history, notifs>>
        ELSE /\ last' = Reply("startProcess", "ok")
             /\ Commit(db3)
  /\ UNCHANGED <<now, activeUsers, others>>

completeStep(sid, userId, decision) ==
  /\ LET stepInstance == steps[sid]
         pid == stepInstance.processInstanceId
         processInstance == procs[pid]
         template == Templates[processInstance.processTemplateId]
         done == [stepInstance EXCEPT !.status = "completed",
                                      !.completedBy = userId,
                                      !.decision = IF decision # Null THEN decision ELSE @]
         db1 == [Db EXCEPT !.steps[sid] = done]
         db2 == LogHistory(db1, HistoryEntry(pid, sid, "step_completed", userId,
                                             "in_progress", "completed"))
         templateStep == FindStep(template, stepInstance.stepId)
     IN IF ~canComplete(stepInstance, userId)
        THEN /\ last' = Reply("completeStep", "Forbidden")
             /\ UNCHANGED <<procs, steps, history, notifs>>
        ELSE IF templateStep = NoStep
        THEN /\ last' = Reply("completeStep", "InvalidState")
             /\ Commit(db2)
        ELSE LET db3 == processStepCompletion(db2, sid, processInstance, userId)
             IN /\ last' = Reply("completeStep", IF db3.thrown THEN "Error" ELSE "ok")
                /\ Commit(db3)
  /\ UNCHANGED <<now, activeUsers, others>>

\* where the server process can die inside completeStep: after the save of
\* the step, after the step_completed row, and inside processStepCompletion
\* after the next StepInstances were created and before the process is saved
CrashPoints == {"stepSaved", "historyLogged", "nextCreated"}

\* completeStep cut short at a crash point; the caller gets no reply
completeStepCrash(sid, userId, decision, point) ==
  /\ LET stepInstance == steps[sid]
         pid == stepInstance.processInstanceId
         processInstance == procs[pid]
         done == [stepInstance EXCEPT !.status = "completed",
                                      !.completedBy = userId,
                                      !.decision = IF decision # Null THEN decision ELSE @]
         db1 == [Db EXCEPT !.steps[sid] = done]
         db2 == LogHistory(db1, HistoryEntry(pid, sid, "step_completed", userId,
                                             "in_progress", "completed"))
         made == RouteAndCreate(db2, done, processInstance, userId)
     IN /\ canComplete(stepInstance, userId)
        /\ Commit(CASE point = "stepSaved" -> db1
                    [] point = "historyLogged" -> db2
                    [] point = "nextCreated" -> made.db)
  /\ last' = Reply("completeStep", "Crash")
  /\ UNCHANGED <<now, activeUsers, others>>

\* Two requests served at the same time: a call runs up to an await, then
\* another call may run.  completeStepBegin is completeStep up to the
\* canComplete check, on the documents it loaded.
completeStepBegin(c, sid, userId, decision) ==
  /\ calls[c] = Idle
  /\ Len(steps) < MaxRaceSteps
  /\ LET stepInstance == steps[sid]
         processInstance == procs[stepInstance.processInstanceId]
     IN IF ~canComplete(stepInstance, userId)
        THEN /\ last' = Reply("completeStep", "Forbidden")
             /\ calls' = calls
        ELSE /\ last' = Reply("completeStep", "checked")
             /\ calls' = [calls EXCEPT ![c] =
                            [pc |-> "checked", sid |-> sid, userId |-> userId,
                             decision |-> decision, stepInstance |-> stepInstance,
                             processInstance |-> processInstance]]
  /\ UNCHANGED <<procs, steps, history, notifs, now, activeUsers, sinkUp, pass, route, sched>>

\* what the save of a process document loaded before another save of it can do:
\* be written, or be rejected by the version check of the document
SaveOutcomes == {"saved", "VersionError"}

\* completeStepFinish looking at the stored step once more before it writes
completeStepFinish_Rechecks(c, outcome) ==
  /\ calls[c] # Idle
  /\ outcome = "saved"
  /\ LET call == calls[c]
         sid == call.sid
         userId == call.userId
         decision == call.decision
         pid == call.stepInstance.processInstanceId
         inMemory == [call.stepInstance EXCEPT !.status = "completed",
                                               !.completedBy = userId,
                                               !.decision = IF decision # Null
                                                            THEN decision ELSE @]
         db1 == [Db EXCEPT !.steps[sid].status = "completed",
                           !.steps[sid].completedBy = userId,
                           !.steps[sid].decision = IF decision # Null THEN decision ELSE @]
         db2 == LogHistory(db1, HistoryEntry(pid, sid, "step_completed", userId,
                                             "in_progress", "completed"))
         db3 == processStepCompletionOf(db2, inMemory, call.processInstance, userId)
     IN IF ~canComplete(steps[sid], userId)
        THEN /\ last' = Reply("completeStep", "Forbidden")
             /\ UNCHANGED <<procs, steps, history, notifs>>
        ELSE /\ last' = Reply("completeStep", IF db3.thrown THEN "Error" ELSE "ok")
             /\ Commit(db3)
  /\ calls' = [calls EXCEPT ![c] = Idle]
  /\ UNCHANGED <<now, activeUsers, sinkUp, pass, route, sched>>

\* completeStep from the save of the step to its end
completeStepFinish(c, outcome) ==
  /\ calls[c] # Idle
  /\ LET call == calls[c]
         sid == call.sid
         userId == call.userId
         decision == call.decision
         pid == call.stepInstance.processInstanceId
         template == Templates[call.processInstance.processTemplateId]
         inMemory == [call.stepInstance EXCEPT !.status = "completed",
                                               !.completedBy = userId,
                                               !.decision = IF decision # Null
                                                            THEN decision ELSE @]
         \* save() writes the paths that were modified in memory
         db1 == [Db EXCEPT !.steps[sid].status = "completed",
                           !.steps[sid].completedBy = userId,
                           !.steps[sid].decision = IF decision # Null THEN decision ELSE @]
         db2 == LogHistory(db1, HistoryEntry(pid, sid, "step_completed", userId,
                                             "in_progress", "completed"))
         templateStep == FindStep(template, inMemory.stepId)
         made == RouteAndCreate(db2, inMemory, call.processInstance, userId)
         db3 == processStepCompletionOf(db2, inMemory, call.processInstance, userId)
     IN \* the version check can reject only a document saved by another call
        \* since it was loaded
        /\ outcome = "VersionError" => procs[pid] # call.processInstance
        /\ IF templateStep = NoStep
           THEN /\ last' = Reply("completeStep", "InvalidState")
                /\ Commit(db2)
           ELSE IF outcome = "VersionError"
           THEN /\ last' = Reply("completeStep", "Error")
                /\ Commit(made.db)
           ELSE /\ last' = Reply("completeStep", IF db3.thrown THEN "Error" ELSE "ok")
                /\ Commit(db3)
  /\ calls' = [calls EXCEPT ![c] = Idle]
  /\ UNCHANGED <<now, activeUsers, sinkUp, pass, route, sched>>

-----------------------------------------------------------------------------
(* Step instance controller *)

startStep(sid, userId) ==
  /\ LET step == steps[sid]
         started == [step EXCEPT !.status = "in_progress",
                                 !.assignedTo = IF @ = Null THEN userId ELSE @]
         db1 == [Db EXCEPT !.steps[sid] = started]
     IN IF step.assignedTo # Null /\ step.assignedTo # userId
        THEN /\ last' = Reply("startStep", "Forbidden")
             /\ UNCHANGED <<procs, steps, history, notifs>>
        ELSE IF step.status # "pending"
        THEN /\ last' = Reply("startStep", "InvalidState")
             /\ UNCHANGED <<procs, steps, history, notifs>>
        ELSE /\ last' = Reply("startStep", "ok")
             /\ Commit(LogHistory(db1, HistoryEntry(step.processInstanceId, sid,
                                   "step_started", userId, "pending", "in_progress")))
  /\ UNCHANGED <<now, activeUsers, others>>

\* The decisions a caller supplies: a decision is sent only for a step whose
\* template step has a conditional transition
Branching(sid) ==
  LET def == FindStep(Templates[procs[steps[sid].processInstanceId].processTemplateId],
                      steps[sid].stepId)
  IN /\ def # NoStep
     /\ \E i \in 1..Len(def.nextSteps) : def.nextSteps[i].condition \notin {"", "true"}

DecisionsFor(sid) == IF Branching(sid) THEN Decisions ELSE {Null}

\* the live test letting through every status but completed
Live_NotCompleted(si) == si.status # "completed"

Live(si) == si.status \in {"pending", "in_progress"}

\* the user directory: u1 and u2 are active users, m1 and a1 are active when listed
IsActiveUser(u) ==
  \/ u \in Actors
  \/ \E i \in 1..Len(activeUsers) : activeUsers[i] = u

skipStep(sid, userId) ==
  /\ LET step == steps[sid]
         db1 == [Db EXCEPT !.steps[sid].status = "skipped"]
         \* fromStatus is read after the status was overwritten
         db2 == LogHistory(db1, HistoryEntry(step.processInstanceId, sid, "step_skipped",
                                             userId, "skipped", "skipped"))
     IN IF ~Live(step)
        THEN /\ last' = Reply("skipStep", "InvalidState")
             /\ UNCHANGED <<procs, steps, history, notifs>>
        \* the step was loaded without populate: processStepCompletion reads
        \* processTemplateId of an ObjectId, finds no template and throws
        ELSE /\ last' = Reply("skipStep", "Error")
             /\ Commit(db2)
  /\ UNCHANGED <<now, activeUsers, others>>

assignStep(sid, userId, assignedTo) ==
  /\ AdminRoom
  /\ LET step == steps[sid]
         db1 == [Db EXCEPT !.steps[sid].assignedTo = assignedTo,
                           !.steps[sid].assignedRole = Null,
                           !.steps[sid].assignedDepartment = Null]
         db2 == LogHistory(db1, HistoryEntry(step.processInstanceId, sid, "step_assigned",
                                             userId, Null, Null))
         sent == NotificationCreate(db2, Notification(assignedTo, "task_assigned",
                                    step.processInstanceId, sid, "medium"))
     IN IF step.status # "pending"
        THEN /\ last' = Reply("assignStep", "InvalidState")
             /\ UNCHANGED <<procs, steps, history, notifs>>
        ELSE IF ~IsActiveUser(assignedTo)
        THEN /\ last' = Reply("assignStep", "InvalidState")
             /\ UNCHANGED <<procs, steps, history, notifs>>
        ELSE /\ last' = Reply("assignStep", IF sent.ok THEN "ok" ELSE "Error")
             /\ Commit(sent.db)
  /\ UNCHANGED <<now, activeUsers, others>>

reassignStep(sid, userId, assignedTo) ==
  /\ AdminRoom
  /\ LET step == steps[sid]
         oldAssignee == step.assignedTo
         db1 == [Db EXCEPT !.steps[sid].assignedTo = assignedTo,
                           !.steps[sid].assignedRole = Null,
                           !.steps[sid].assignedDepartment = Null,
                           !.steps[sid].status =
                              IF @ = "in_progress" THEN "pending" ELSE @]
         db2 == LogHistory(db1, HistoryEntry(step.processInstanceId, sid, "step_reassigned",
                                             userId, Null, Null))
         toNew == Notification(assignedTo, "task_assigned",
                               step.processInstanceId, sid, "medium")
         toOld == Notification(oldAssignee, "task_reassigned",
                               step.processInstanceId, sid, "medium")
     IN IF ~Live(step)
        THEN /\ last' = Reply("reassignStep", "InvalidState")
             /\ UNCHANGED <<procs, steps, history, notifs>>
        ELSE IF ~IsActiveUser(assignedTo)
        THEN /\ last' = Reply("reassignStep", "InvalidState")
             /\ UNCHANGED <<procs, steps, history, notifs>>
        \* insertMany validates every document first and inserts none when
        \* one is invalid: task_reassigned is not a notification type
        ELSE IF oldAssignee # Null /\ toOld.type \notin NotificationTypes
        THEN /\ last' = Reply("reassignStep", "Error")
             /\ Commit(db2)
        ELSE LET sent == NotificationCreate(db2, toNew)
             IN /\ last' = Reply("reassignStep", IF sent.ok THEN "ok" ELSE "Error")
                /\ Commit(sent.db)
  /\ UNCHANGED <<now, activeUsers, others>>

\* escalateStep handing the step to the escalation target
escalateStep_TakesOver(sid, userId, escalateTo) ==
  /\ AdminRoom
  /\ LET step == steps[sid]
         level == step.escalationLevel + 1
         db1 == [Db EXCEPT !.steps[sid].escalated = TRUE,
                           !.steps[sid].assignedTo = escalateTo,
                           !.steps[sid].escalationLevel = level,
                           !.steps[sid].escalationHistory =
                              Append(@, [level |-> level, escalatedTo |-> escalateTo])]
         db2 == LogHistory(db1, HistoryEntry(step.processInstanceId, sid, "step_escalated",
                                             userId, Null, Null))
     IN IF ~Live(step)
        THEN /\ last' = Reply("escalateStep", "InvalidState")
             /\ UNCHANGED <<procs, steps, history, notifs>>
        ELSE IF ~IsActiveUser(escalateTo)
        THEN /\ last' = Reply("escalateStep", "InvalidState")
             /\ UNCHANGED <<procs, steps, history, notifs>>
        ELSE LET sent == NotificationCreate(db2, Notification(escalateTo, "task_escalated",
                                                step.processInstanceId, sid, "high"))
             IN /\ last' = Reply("escalateStep", IF sent.ok THEN "ok" ELSE "Error")
                /\ Commit(sent.db)
  /\ UNCHANGED <<now, activeUsers, others>>

escalateStep(sid, userId, escalateTo) ==
  /\ AdminRoom
  /\ LET step == steps[sid]
         level == step.escalationLevel + 1
         db1 == [Db EXCEPT !.steps[sid].escalated = TRUE,
                           !.steps[sid].escalationLevel = level,
                           !.steps[sid].escalationHistory =
                              Append(@, [level |-> level, escalatedTo |-> escalateTo])]
         db2 == LogHistory(db1, HistoryEntry(step.processInstanceId, sid, "step_escalated",
                                             userId, Null, Null))
     IN IF ~Live(step)
        THEN /\ last' = Reply("escalateStep", "InvalidState")
             /\ UNCHANGED <<procs, steps, history, notifs>>
        ELSE IF ~IsActiveUser(escalateTo)
        THEN /\ last' = Reply("escalateStep", "InvalidState")
             /\ UNCHANGED <<procs, steps, history, notifs>>
        ELSE LET sent == NotificationCreate(db2, Notification(escalateTo, "task_escalated",
                                                step.processInstanceId, sid, "high"))
             IN /\ last' = Reply("escalateStep", IF sent.ok THEN "ok" ELSE "Error")
                /\ Commit(sent.db)
  /\ UNCHANGED <<now, activeUsers, others>>

-----------------------------------------------------------------------------
(* Process instance controller *)

suspendProcess(pid, userId) ==
  /\ AdminRoom
  /\ LET instance == procs[pid]
         db1 == [Db EXCEPT !.procs[pid].status = "suspended"]
     IN IF instance.status # "active"
        THEN /\ last' = Reply("suspendProcess", "InvalidState")
             /\ UNCHANGED <<procs, steps, history, notifs>>
        ELSE /\ last' = Reply("suspendProcess", "ok")
             /\ Commit(LogHistory(db1, HistoryEntry(pid, 0, "process_suspended", userId,
                                                    "active", "suspended")))
  /\ UNCHANGED <<now, activeUsers, others>>

resumeProcess(pid, userId) ==
  /\ AdminRoom
  /\ LET instance == procs[pid]
         db1 == [Db EXCEPT !.procs[pid].status = "active"]
     IN IF instance.status # "suspended"
        THEN /\ last' = Reply("resumeProcess", "InvalidState")
             /\ UNCHANGED <<procs, steps, history, notifs>>
        ELSE /\ last' = Reply("resumeProcess", "ok")
             /\ Commit(LogHistory(db1, HistoryEntry(pid, 0, "process_resumed", userId,
                                                    "suspended", "active")))
  /\ UNCHANGED <<now, activeUsers, others>>

\* one process_cancelled notification per distinct assignee, and one more for
\* the initiator: includes() compares the ObjectIds with a string and never hits
notifyProcessCancellation(db, pid) ==
  LET involvedUsers == {db.steps[i].assignedTo : i \in
                          {j \in 1..Len(db.steps) :
                             /\ db.steps[j].processInstanceId = pid
                             /\ db.steps[j].assignedTo # Null}}
      docs == SetToBag({Notification(u, "process_cancelled", pid, 0, "medium") :
                          u \in involvedUsers})
              (+) SetToBag({Notification(InitiatedBy, "process_cancelled", pid, 0, "medium")})
  \* a rejected insertMany is caught and logged
  IN IF sinkUp THEN [db EXCEPT !.notifs = @ (+) docs] ELSE db

\* cancelProcess cancelling the pending steps only
cancelProcess_PendingOnly(pid, userId) ==
  /\ LET instance == procs[pid]
         canCancel == \/ Role[userId] = "admin"
                      \/ Role[userId] = "manager"
                      \/ InitiatedBy = userId
         oldStatus == instance.status
         db1 == [Db EXCEPT !.procs[pid].status = "cancelled",
                           !.procs[pid].endDate = now]
         db2 == [db1 EXCEPT !.steps =
                   [i \in 1..Len(steps) |->
                      IF steps[i].processInstanceId = pid /\ steps[i].status = "pending"
                      THEN [steps[i] EXCEPT !.status = "cancelled"]
                      ELSE steps[i]]]
         db3 == LogHistory(db2, HistoryEntry(pid, 0, "process_cancelled", userId,
                                             oldStatus, "cancelled"))
     IN IF ~canCancel
        THEN /\ last' = Reply("cancelProcess", "Forbidden")
             /\ UNCHANGED <<procs, steps, history, notifs>>
        ELSE IF instance.status \in {"completed", "cancelled"}
        THEN /\ last' = Reply("cancelProcess", "InvalidState")
             /\ UNCHANGED <<procs, steps, history, notifs>>
        ELSE /\ last' = Reply("cancelProcess", "ok")
             /\ Commit(notifyProcessCancellation(db3, pid))
  /\ UNCHANGED <<now, activeUsers, others>>

cancelProcess(pid, userId) ==
  /\ LET instance == procs[pid]
         canCancel == \/ Role[userId] = "admin"
                      \/ Role[userId] = "manager"
                      \/ InitiatedBy = userId
         oldStatus == instance.status
         db1 == [Db EXCEPT !.procs[pid].status = "cancelled",
                           !.procs[pid].endDate = now]
         db2 == [db1 EXCEPT !.steps =
                   [i \in 1..Len(steps) |->
                      IF steps[i].processInstanceId = pid /\ Live(steps[i])
                      THEN [steps[i] EXCEPT !.status = "cancelled"]
                      ELSE steps[i]]]
         db3 == LogHistory(db2, HistoryEntry(pid, 0, "process_cancelled", userId,
                                             oldStatus, "cancelled"))
     IN IF ~canCancel
        THEN /\ last' = Reply("cancelProcess", "Forbidden")
             /\ UNCHANGED <<procs, steps, history, notifs>>
        ELSE IF instance.status \in {"completed", "cancelled"}
        THEN /\ last' = Reply("cancelProcess", "InvalidState")
             /\ UNCHANGED <<procs, steps, history, notifs>>
        ELSE /\ last' = Reply("cancelProcess", "ok")
             /\ Commit(notifyProcessCancellation(db3, pid))
  /\ UNCHANGED <<now, activeUsers, others>>

-----------------------------------------------------------------------------
(* Scheduler passes and the engine's escalation pass *)

\* the overdue query without the test of the escalated flag
Overdue_IgnoresFlag(si) ==
  /\ Live(si)
  /\ si.dueDate # NoDate
  /\ si.dueDate < now

\* the query shared by checkOverdueTasks and escalateOverdueTasks
Overdue(si) ==
  /\ Live(si)
  /\ si.dueDate # NoDate
  /\ si.dueDate < now
  /\ si.escalated # TRUE

RECURSIVE OverdueLoop(_, _, _)
OverdueLoop(db, tasks, i) ==
  IF i > Len(db.steps) THEN db
  ELSE IF i \notin tasks THEN OverdueLoop(db, tasks, i + 1)
  ELSE LET task == db.steps[i]
           db1 == [db EXCEPT !.steps[i].escalated = TRUE]
           db2 == IF task.assignedTo # Null
                  THEN NotificationCreate(db1, Notification(task.assignedTo, "task_overdue",
                                          task.processInstanceId, i, "high")).db
                  ELSE db1
       IN OverdueLoop(db2, tasks, i + 1)

checkOverdueTasks ==
  /\ LET overdueTasks == {i \in 1..Len(steps) : Overdue(steps[i])}
     IN Commit(OverdueLoop(Db, overdueTasks, 1))
  /\ last' = Reply("checkOverdueTasks", "ok")
  /\ UNCHANGED <<now, activeUsers, others>>

EscalationThresholdHours == 2
MaxEscalationLevel == 3

\* the cascade query without the limit on escalationLevel
NeedsEscalation_NoCap(si) ==
  /\ Live(si)
  /\ si.dueDate # NoDate
  /\ si.dueDate < now - EscalationThresholdHours
  /\ si.escalated = TRUE

\* the query of processTaskEscalations
NeedsEscalation(si) ==
  /\ Live(si)
  /\ si.dueDate # NoDate
  /\ si.dueDate < now - EscalationThresholdHours
  /\ si.escalated = TRUE
  /\ si.escalationLevel < MaxEscalationLevel

RECURSIVE NotifyTargets(_, _, _, _)
NotifyTargets(db, targets, pid, sid) ==
  IF targets = <<>> THEN db
  ELSE NotifyTargets(NotificationCreate(db, Notification(Head(targets), "task_escalated",
                                        pid, sid, "urgent")).db,
                     Tail(targets), pid, sid)

RECURSIVE CascadeLoop(_, _, _)
CascadeLoop(db, tasks, i) ==
  IF i > Len(db.steps) THEN db
  ELSE IF i \notin tasks THEN CascadeLoop(db, tasks, i + 1)
  ELSE LET task == db.steps[i]
           escalationLevel == task.escalationLevel + 1
           db1 == [db EXCEPT !.steps[i].escalationLevel = escalationLevel]
       IN CascadeLoop(NotifyTargets(db1, activeUsers, task.processInstanceId, i),
                      tasks, i + 1)

processTaskEscalations ==
  /\ LET tasksToEscalate == {i \in 1..Len(steps) : NeedsEscalation(steps[i])}
     IN Commit(CascadeLoop(Db, tasksToEscalate, 1))
  /\ last' = Reply("processTaskEscalations", "ok")
  /\ UNCHANGED <<now, activeUsers, others>>

\* WorkflowEngine.escalateOverdueTasks: the whole loop is inside one try, so
\* the first rejected write ends the pass
RECURSIVE EscalateLoop(_, _, _)
EscalateLoop(db, tasks, i) ==
  IF i > Len(db.steps) THEN db
  ELSE IF i \notin tasks THEN EscalateLoop(db, tasks, i + 1)
  ELSE IF Len(activeUsers) = 0 THEN EscalateLoop(db, tasks, i + 1)
  ELSE LET task == db.steps[i]
           escalationTarget == activeUsers[1]
           db1 == [db EXCEPT !.steps[i].escalated = TRUE,
                             !.steps[i].escalationLevel = 1,
                             !.steps[i].escalationHistory =
                                Append(@, [level |-> 1, escalatedTo |-> escalationTarget])]
           logged == ProcessHistoryCreate(db1,
                        HistoryEntry(task.processInstanceId, i, "step_escalated",
                                     Null, Null, Null))
           sent == NotificationCreate(logged.db,
                        Notification(escalationTarget, "task_escalated",
                                     task.processInstanceId, i, "high"))
       IN IF ~logged.ok THEN db1
          ELSE IF ~sent.ok THEN logged.db
          ELSE EscalateLoop(sent.db, tasks, i + 1)

escalateOverdueTasks ==
  /\ LET overdueTasks == {i \in 1..Len(steps) : Overdue(steps[i])}
     IN Commit(EscalateLoop(Db, overdueTasks, 1))
  /\ last' = Reply("escalateOverdueTasks", "ok")
  /\ UNCHANGED <<now, activeUsers, others>>

-----------------------------------------------------------------------------
(* The passes one await at a time: other requests are served between the
   query of a pass and each turn of its loop *)

\* the documents a find() returns, in the order of the collection
Found(selected) ==
  SelectSeq([i \in 1..Len(steps) |-> [sid |-> i, task |-> steps[i]]],
            LAMBDA t : t.sid \in selected)

\* the query of a pass and what is left of it when the loop has nothing to do
PassFind(op, found) ==
  /\ pass = Idle
  /\ pass' = IF found = <<>> THEN Idle
             ELSE [pc |-> "loop", op |-> op, tasks |-> found]
  /\ last' = Reply(op, IF found = <<>> THEN "ok" ELSE "found")
  /\ UNCHANGED <<procs, steps, history, notifs, now, activeUsers,
                 sinkUp, calls, route, sched>>

\* the loop goes on with the next document, or the pass is over
PassOn(continue) ==
  pass' = IF continue /\ Len(pass.tasks) > 1
          THEN [pass EXCEPT !.tasks = Tail(@)]
          ELSE Idle

checkOverdueTasksFind ==
  PassFind("checkOverdueTasks", Found({i \in 1..Len(steps) : Overdue(steps[i])}))

\* one turn of the loop of checkOverdueTasks: task is the document as it was
\* found, and save() writes the path that was set
checkOverdueTasksTurn ==
  /\ pass # Idle
  /\ pass.op = "checkOverdueTasks"
  /\ LET i == Head(pass.tasks).sid
         task == Head(pass.tasks).task
         db1 == [Db EXCEPT !.steps[i].escalated = TRUE]
         db2 == IF task.assignedTo # Null
                THEN NotificationCreate(db1, Notification(task.assignedTo, "task_overdue",
                                        task.processInstanceId, i, "high")).db
                ELSE db1
     IN Commit(db2)
  /\ PassOn(TRUE)
  /\ last' = Reply("checkOverdueTasks", "ok")
  /\ UNCHANGED <<now, activeUsers, sinkUp, calls, route, sched>>

processTaskEscalationsFind ==
  PassFind("processTaskEscalations",
           Found({i \in 1..Len(steps) : NeedsEscalation(steps[i])}))

processTaskEscalationsTurn ==
  /\ pass # Idle
  /\ pass.op = "processTaskEscalations"
  /\ LET i == Head(pass.tasks).sid
         task == Head(pass.tasks).task
         escalationLevel == task.escalationLevel + 1
         db1 == [Db EXCEPT !.steps[i].escalationLevel = escalationLevel]
     IN Commit(NotifyTargets(db1, activeUsers, task.processInstanceId, i))
  /\ PassOn(TRUE)
  /\ last' = Reply("processTaskEscalations", "ok")
  /\ UNCHANGED <<now, activeUsers, sinkUp, calls, route, sched>>

escalateOverdueTasksFind ==
  PassFind("escalateOverdueTasks", Found({i \in 1..Len(steps) : Overdue(steps[i])}))

\* one turn of the loop of escalateOverdueTasks; a rejected write ends the pass
escalateOverdueTasksTurn ==
  /\ pass # Idle
  /\ pass.op = "escalateOverdueTasks"
  /\ LET i == Head(pass.tasks).sid
         task == Head(pass.tasks).task
         escalationTarget == activeUsers[1]
         db1 == [Db EXCEPT !.steps[i].escalated = TRUE,
                           !.steps[i].escalationLevel = 1,
                           !.steps[i].escalationHistory =
                              Append(@, [level |-> 1, escalatedTo |-> escalationTarget])]
         logged == ProcessHistoryCreate(db1,
                      HistoryEntry(task.processInstanceId, i, "step_escalated",
                                   Null, Null, Null))
         sent == NotificationCreate(logged.db,
                      Notification(escalationTarget, "task_escalated",
                                   task.processInstanceId, i, "high"))
     IN IF Len(activeUsers) = 0
        THEN /\ UNCHANGED <<procs, steps, history, notifs>>
             /\ PassOn(TRUE)
        ELSE IF ~logged.ok
        THEN /\ Commit(db1)
             /\ PassOn(FALSE)
        ELSE /\ Commit(sent.db)
             /\ PassOn(sent.ok)
  /\ last' = Reply("escalateOverdueTasks", "ok")
  /\ UNCHANGED <<now, activeUsers, sinkUp, calls, route, sched>>

-----------------------------------------------------------------------------
(* Scheduler service: the jobs map *)

\* the names a caller may pass: the five job names and a name the service
\* does not know
RequestNames == JobNames \cup {"reportExport"}

Sched == [jobs |-> jobs, cronTasks |-> cronTasks]

CommitSched(sc) ==
  /\ jobs' = sc.jobs
  /\ cronTasks' = sc.cronTasks

\* cron.schedule(...), this.jobs.set(name, job), job.start(): set() replaces
\* an entry the map already has, and the task of that entry keeps running
ScheduleJob(sc, name) ==
  [jobs |-> [sc.jobs EXCEPT ![name] = TRUE],
   cronTasks |-> [sc.cronTasks EXCEPT ![name] = @ + 1]]

setupOverdueTasksJob(sc) == ScheduleJob(sc, "overdueTasksCheck")

setupEscalationJob(sc) == ScheduleJob(sc, "taskEscalation")

setupCleanupJob(sc) == ScheduleJob(sc, "dailyCleanup")

setupNotificationDigestJob(sc) ==
  IF ~enableEmailNotifications THEN sc
  ELSE ScheduleJob(sc, "notificationDigest")

setupHealthCheckJob(sc) == ScheduleJob(sc, "healthCheck")

initialize ==
  /\ \A n \in JobNames : cronTasks[n] < MaxCronTasks
  /\ IF isInitialized
     THEN UNCHANGED <<jobs, cronTasks, isInitialized>>
     ELSE /\ CommitSched(setupHealthCheckJob(setupNotificationDigestJob(
                 setupCleanupJob(setupEscalationJob(setupOverdueTasksJob(Sched))))))
          /\ isInitialized' = TRUE
  /\ last' = Reply("initialize", "ok")
  /\ UNCHANGED <<procs, steps, history, notifs, now, activeUsers,
                 sinkUp, calls, pass, route, enableEmailNotifications>>

\* the body of stopJob: [sc, result]
StopJobIn(sc, jobName) ==
  IF jobName \in JobNames /\ sc.jobs[jobName]
  THEN [sc |-> [jobs |-> [sc.jobs EXCEPT ![jobName] = FALSE],
                cronTasks |-> [sc.cronTasks EXCEPT ![jobName] = @ - 1]],
        result |-> "true"]
  ELSE [sc |-> sc, result |-> "false"]

stopJob(jobName) ==
  /\ LET r == StopJobIn(Sched, jobName)
     IN /\ CommitSched(r.sc)
        /\ last' = Reply("stopJob", r.result)
  /\ UNCHANGED <<procs, steps, history, notifs, now, activeUsers,
                 sinkUp, calls, pass, route, isInitialized, enableEmailNotifications>>

stopAll ==
  /\ jobs' = NoJobs
  /\ cronTasks' = [n \in JobNames |-> IF jobs[n] THEN cronTasks[n] - 1 ELSE cronTasks[n]]
  /\ isInitialized' = FALSE
  /\ last' = Reply("stopAll", "ok")
  /\ UNCHANGED <<procs, steps, history, notifs, now, activeUsers,
                 sinkUp, calls, pass, route, enableEmailNotifications>>

restartJob(jobName) ==
  /\ LET stopped == StopJobIn(Sched, jobName).sc
     IN /\ jobName \in JobNames => stopped.cronTasks[jobName] < MaxCronTasks
        /\ CASE jobName = "overdueTasksCheck" ->
                  /\ CommitSched(setupOverdueTasksJob(stopped))
                  /\ last' = Reply("restartJob", "true")
             [] jobName = "taskEscalation" ->
                  /\ CommitSched(setupEscalationJob(stopped))
                  /\ last' = Reply("restartJob", "true")
             [] jobName = "dailyCleanup" ->
                  /\ CommitSched(setupCleanupJob(stopped))
                  /\ last' = Reply("restartJob", "true")
             [] jobName = "notificationDigest" ->
                  /\ CommitSched(setupNotificationDigestJob(stopped))
                  /\ last' = Reply("restartJob", "true")
             [] jobName = "healthCheck" ->
                  /\ CommitSched(setupHealthCheckJob(stopped))
                  /\ last' = Reply("restartJob", "true")
             [] OTHER ->
                  /\ CommitSched(stopped)
                  /\ last' = Reply("restartJob", "false")
  /\ UNCHANGED <<procs, steps, history, notifs, now, activeUsers,
                 sinkUp, calls, pass, route, isInitialized, enableEmailNotifications>>

-----------------------------------------------------------------------------

NewProcess(t) ==
  [processTemplateId |-> t, status |-> "draft", currentSteps |-> <<>>,
   endDate |-> NoDate, completionPercentage |-> 0]

InitWith(templates, directories) ==
  /\ procs \in [ProcIds -> {NewProcess(t) : t \in templates}]
  /\ steps = <<>>
  /\ history = EmptyBag
  /\ notifs = EmptyBag
  /\ now = 0
  /\ activeUsers \in directories
  /\ last = Reply("none", "ok")
  /\ sinkUp = TRUE
  /\ calls = [c \in Callers |-> Idle]
  /\ pass = Idle
  /\ route = NoRoute
  /\ jobs = NoJobs
  /\ cronTasks = NoTasks
  /\ isInitialized = FALSE
  /\ enableEmailNotifications = TRUE

Init == InitWith({"linear", "service"}, {<<"m1", "a1">>})

\* the clock advances in steps of TickHours
Tick ==
  /\ now + TickHours <= MaxTime
  /\ now' = now + TickHours
  /\ last' = Reply("Tick", "ok")
  /\ UNCHANGED <<procs, steps, history, notifs, activeUsers, others>>

Step ==
  \/ \E p \in ProcIds : startProcess(p, InitiatedBy)
  \/ \E s \in 1..Len(steps), u \in Actors : \E d \in DecisionsFor(s) : completeStep(s, u, d)
  \/ \E s \in 1..Len(steps), u \in Actors : startStep(s, u)
  \/ \E s \in 1..Len(steps), m \in Managers : skipStep(s, m)
  \/ \E s \in 1..Len(steps), m \in Managers, a \in Actors : assignStep(s, m, a)
  \/ \E s \in 1..Len(steps), m \in Managers, a \in Actors : reassignStep(s, m, a)
  \/ \E s \in 1..Len(steps), m \in Managers : escalateStep(s, m, "a1")
  \/ \E p \in ProcIds, m \in Managers : suspendProcess(p, m)
  \/ \E p \in ProcIds, m \in Managers : resumeProcess(p, m)
  \/ \E p \in ProcIds, u \in Actors : cancelProcess(p, u)
  \/ checkOverdueTasks
  \/ processTaskEscalations
  \/ escalateOverdueTasks

Next == Step \/ Tick

Spec == Init /\ [][Next]_vars

InitFlow == InitWith({"decision"}, {<<"m1", "a1">>})

SpecFlow == InitFlow /\ [][Step]_vars

InitFan == InitWith({"fanout", "twice"}, {<<"m1", "a1">>})

SpecFan == InitFan /\ [][Step]_vars

\* two requests in flight on one process
InitRace == InitWith({"linear", "decision"}, {<<"m1", "a1">>})

NextRace ==
  \/ \E p \in ProcIds : startProcess(p, InitiatedBy)
  \/ \E s \in 1..Len(steps), u \in Actors : startStep(s, u)
  \/ \E c \in Callers, s \in 1..Len(steps), u \in Actors :
        \E d \in DecisionsFor(s) : completeStepBegin(c, s, u, d)
  \/ \E c \in Callers, o \in SaveOutcomes : completeStepFinish(c, o)

SpecRace == InitRace /\ [][NextRace]_vars

\* a process of three user tasks in a row
InitChain == InitWith({"chain"}, {<<"m1", "a1">>})

NextChain ==
  \/ \E p \in ProcIds : startProcess(p, InitiatedBy)
  \/ \E s \in 1..Len(steps), u \in Actors : startStep(s, u)
  \/ \E s \in 1..Len(steps), u \in Actors : \E d \in DecisionsFor(s) : completeStep(s, u, d)
  \/ \E s \in 1..Len(steps), m \in Managers, a \in Actors : reassignStep(s, m, a)
  \/ \E p \in ProcIds, u \in Actors : cancelProcess(p, u)

SpecChain == InitChain /\ [][NextChain]_vars

\* determineNextSteps on its own: every nextSteps list of up to MaxNextSteps
\* transitions, with a condition that is absent, empty, "true" or a decision
\* value, for a decision step and for a user task, with every decision
RouteConditions == {Null, "", "true", "approve", "reject"}
RouteStepIds == {"A", "B"}
RouteDecisions == Decisions \cup {""}
RouteTransitions == {Tr(c, t) : c \in RouteConditions, t \in RouteStepIds}
RouteNextSteps == UNION {[1..k -> RouteTransitions] : k \in 0..MaxNextSteps}

InitRoute ==
  /\ procs = [p \in ProcIds |-> NewProcess("linear")]
  /\ steps = <<>>
  /\ history = EmptyBag
  /\ notifs = EmptyBag
  /\ now = 0
  /\ activeUsers = <<"m1", "a1">>
  /\ last = Reply("none", "ok")
  /\ sinkUp = TRUE
  /\ calls = [c \in Callers |-> Idle]
  /\ pass = Idle
  /\ route \in {[called |-> FALSE,
                  templateStep |-> StepDef("X", type, "auto", <<>>, ns, 0, FALSE),
                  decision |-> d,
                  result |-> <<>>] :
                   type \in {"decision", "user_task"}, ns \in RouteNextSteps,
                   d \in RouteDecisions}
  /\ jobs = NoJobs
  /\ cronTasks = NoTasks
  /\ isInitialized = FALSE
  /\ enableEmailNotifications = TRUE

CallDetermineNextSteps ==
  /\ ~route.called
  /\ route' = [route EXCEPT !.called = TRUE,
                            !.result = determineNextSteps(route.templateStep,
                                                          route.decision)]
  /\ last' = Reply("determineNextSteps", "ok")
  /\ UNCHANGED <<procs, steps, history, notifs, now, activeUsers, sinkUp, calls, pass, sched>>

SpecRoute == InitRoute /\ [][CallDetermineNextSteps]_vars

\* instances whose template was deleted, and requests for unknown instances
InitMissing == InitWith({"linear", DeletedTemplate}, {<<"m1", "a1">>})

NextMissing ==
  \/ Next
  \/ \E p \in UnknownProcIds : startProcess(p, InitiatedBy)

SpecMissing == InitMissing /\ [][NextMissing]_vars

\* the scheduler service of a server started with either setting of
\* ENABLE_EMAIL_NOTIFICATIONS
InitSched ==
  /\ procs = [p \in ProcIds |-> NewProcess("linear")]
  /\ steps = <<>>
  /\ history = EmptyBag
  /\ notifs = EmptyBag
  /\ now = 0
  /\ activeUsers = <<"m1", "a1">>
  /\ last = Reply("none", "ok")
  /\ sinkUp = TRUE
  /\ calls = [c \in Callers |-> Idle]
  /\ pass = Idle
  /\ route = NoRoute
  /\ jobs = NoJobs
  /\ cronTasks = NoTasks
  /\ isInitialized = FALSE
  /\ enableEmailNotifications \in BOOLEAN

NextSched ==
  \/ initialize
  \/ stopAll
  \/ \E n \in RequestNames : stopJob(n)
  \/ \E n \in RequestNames : restartJob(n)

SpecSched == InitSched /\ [][NextSched]_vars

\* the notification collection becomes unavailable, and available again
NotificationSinkFails ==
  /\ sinkUp
  /\ sinkUp' = FALSE
  /\ last' = Reply("NotificationSinkFails", "ok")
  /\ UNCHANGED <<procs, steps, history, notifs, now, activeUsers, calls, pass, route, sched>>

NotificationSinkRecovers ==
  /\ ~sinkUp
  /\ sinkUp' = TRUE
  /\ last' = Reply("NotificationSinkRecovers", "ok")
  /\ UNCHANGED <<procs, steps, history, notifs, now, activeUsers, calls, pass, route, sched>>

InitSink == InitWith({"linear", "decision"}, {<<"m1", "a1">>})

NextSink ==
  \/ \E p \in ProcIds : startProcess(p, InitiatedBy)
  \/ \E s \in 1..Len(steps), u \in Actors : startStep(s, u)
  \/ \E s \in 1..Len(steps), u \in Actors : \E d \in DecisionsFor(s) : completeStep(s, u, d)
  \/ NotificationSinkFails
  \/ NotificationSinkRecovers

SpecSink == InitSink /\ [][NextSink]_vars

\* a server that can die in the middle of completeStep
InitCrash == InitWith({"decision"}, {<<"m1", "a1">>})

NextCrash ==
  \/ \E p \in ProcIds : startProcess(p, InitiatedBy)
  \/ \E s \in 1..Len(steps), u \in Actors : startStep(s, u)
  \/ \E s \in 1..Len(steps), u \in Actors : \E d \in DecisionsFor(s) : completeStep(s, u, d)
  \/ \E s \in 1..Len(steps), u \in Actors, k \in CrashPoints :
        \E d \in DecisionsFor(s) : completeStepCrash(s, u, d, k)

SpecCrash == InitCrash /\ [][NextCrash]_vars

\* the users do their work: a pending step is started by a user who may
\* start it, and a step in progress is completed by a user who may complete it
StartPendingStep ==
  \E s \in 1..Len(steps), u \in Actors :
    /\ steps[s].status = "pending"
    /\ steps[s].assignedTo \in {Null, u}
    /\ startStep(s, u)

CompleteStepInProgress ==
  \E s \in 1..Len(steps), u \in Actors : \E d \in DecisionsFor(s) :
    /\ canComplete(steps[s], u)
    /\ completeStep(s, u, d)

InitLive == InitWith({"linear", "decision", "relay"}, {<<"m1", "a1">>})

NextLive ==
  \/ \E p \in ProcIds : startProcess(p, InitiatedBy)
  \/ \E s \in 1..Len(steps), u \in Actors : startStep(s, u)
  \/ \E s \in 1..Len(steps), u \in Actors : \E d \in DecisionsFor(s) : completeStep(s, u, d)

\* CompleteStepInProgress can be taken exactly in the states where some user
\* may complete some step, and taking it changes the step
SomeStepCompletable ==
  \E s \in 1..Len(steps), u \in Actors : canComplete(steps[s], u)

\* weak fairness of both: the last conjunct is WF_vars(CompleteStepInProgress)
\* with its enabling condition written out
SpecLive ==
  /\ InitLive
  /\ [][NextLive]_vars
  /\ WF_vars(StartPendingStep)
  /\ ([]<>(~SomeStepCompletable) \/ []<><<CompleteStepInProgress>>_vars)

\* the scheduler passes running alongside the requests of the users
InitPass == InitWith({"linear"}, {<<"m1", "a1">>})

NextPass ==
  \/ \E p \in ProcIds : startProcess(p, InitiatedBy)
  \/ \E s \in 1..Len(steps), u \in Actors : startStep(s, u)
  \/ \E s \in 1..Len(steps), u \in Actors : \E d \in DecisionsFor(s) : completeStep(s, u, d)
  \/ \E s \in 1..Len(steps), m \in Managers : skipStep(s, m)
  \/ \E p \in ProcIds, u \in Actors : cancelProcess(p, u)
  \/ checkOverdueTasksFind
  \/ checkOverdueTasksTurn
  \/ processTaskEscalationsFind
  \/ processTaskEscalationsTurn
  \/ escalateOverdueTasksFind
  \/ escalateOverdueTasksTurn
  \/ Tick

SpecPass == InitPass /\ [][NextPass]_vars

-----------------------------------------------------------------------------
(* Properties *)

StepsOfIn(st, p) == {i \in 1..Len(st) : st[i].processInstanceId = p}

HistCount(h, p, action) ==
  SumCopies(h, {e \in BagToSet(h) : e.processInstanceId = p /\ e.action = action})

NotifCount(n, sid, type) ==
  SumCopies(n, {e \in BagToSet(n) : e.relatedStep = sid /\ e.type = type})

TemplateOf(p) == Templates[procs[p].processTemplateId]

StoreUnchanged == UNCHANGED <<procs, steps, history, notifs>>

\* C1: startProcess on a draft instance succeeds and leaves the instance
\* active with currentSteps = <<startStep>>, exactly one StepInstance of the
\* process, for the start step, pending or in progress (completed when the
\* start step is a service task or autoComplete), and one process_started
\* history row.
C1_StartFromDraft ==
  [][\A p \in ProcIds :
       (startProcess(p, InitiatedBy) /\ procs[p].status = "draft") =>
          LET t == TemplateOf(p)
              def == FindStep(t, t.startStep)
              mine == StepsOfIn(steps', p)
          IN /\ last'.result = "ok"
             /\ procs'[p].status = "active"
             /\ procs'[p].currentSteps = <<t.startStep>>
             /\ Cardinality(mine) = 1
             /\ \A i \in mine :
                  /\ steps'[i].stepId = t.startStep
                  /\ IF def.type = "service_task" \/ def.autoComplete
                     THEN steps'[i].status = "completed"
                     ELSE steps'[i].status \in {"pending", "in_progress"}
             /\ HistCount(history', p, "process_started") = 1]_vars

C1_Started ==
  \E p \in ProcIds :
    /\ last = Reply("startProcess", "ok")
    /\ procs[p].status = "active"
    /\ Cardinality(StepsOfIn(steps, p)) = 1
    /\ HistCount(history, p, "process_started") = 1

\* C2: startProcess on an instance that is not a draft fails with
\* InvalidState and changes no process instance, step instance, history row
\* or notification.
C2_StartNonDraftRejected ==
  [][\A p \in ProcIds :
       (startProcess(p, InitiatedBy) /\ procs[p].status # "draft") =>
          /\ last'.result = "InvalidState"
          /\ StoreUnchanged]_vars

C2_SecondStartRejected ==
  \E p \in ProcIds :
    /\ last = Reply("startProcess", "InvalidState")
    /\ procs[p].status = "active"
    /\ Cardinality(StepsOfIn(steps, p)) = 1

\* C3: completeStep(step, actor) succeeds exactly when the step is in
\* progress and unassigned or assigned to the actor; otherwise it fails with
\* Forbidden and changes nothing in the store.
C3_CompleteIffAllowed ==
  [][\A s \in 1..Len(steps), u \in Actors, d \in Decisions :
       completeStep(s, u, d) =>
          LET allowed == /\ steps[s].status = "in_progress"
                         /\ \/ steps[s].assignedTo = Null
                            \/ steps[s].assignedTo = u
          IN /\ last'.result = "ok" <=> allowed
             /\ allowed => steps'[s].status = "completed" /\ steps'[s].completedBy = u
             /\ ~allowed => last'.result = "Forbidden" /\ StoreUnchanged]_vars

C3_ForbiddenForOther ==
  \E s \in 1..Len(steps) :
    /\ last = Reply("completeStep", "Forbidden")
    /\ steps[s].status = "in_progress"
    /\ steps[s].assignedTo # Null
    /\ \E t \in 1..Len(steps) : steps[t].status = "completed" /\ steps[t].completedBy # Null

\* C4: in a two-step template start -> end with one unconditional transition
\* and endSteps = {end}, a successful completeStep of the start step leaves
\* the process completed with completionPercentage 100 and no currentSteps.
TwoStep(t) ==
  /\ Len(t.steps) = 2
  /\ t.steps[1].stepId = t.startStep
  /\ t.steps[1].nextSteps = <<Tr("", t.steps[2].stepId)>>
  /\ t.endSteps = {t.steps[2].stepId}

C4_TwoStepCompletes ==
  [][\A s \in 1..Len(steps), u \in Actors, d \in Decisions :
       LET p == steps[s].processInstanceId
       IN (/\ completeStep(s, u, d)
           /\ last'.result = "ok"
           /\ TwoStep(TemplateOf(p))
           /\ steps[s].stepId = TemplateOf(p).startStep) =>
             /\ procs'[p].status = "completed"
             /\ procs'[p].completionPercentage = 100
             /\ procs'[p].currentSteps = <<>>]_vars

C4_TwoStepCompleted ==
  \E p \in ProcIds :
    /\ TwoStep(TemplateOf(p))
    /\ last = Reply("completeStep", "ok")
    /\ procs[p].status = "completed"
    /\ Cardinality(StepsOfIn(steps, p)) = 2
    /\ \E i \in StepsOfIn(steps, p) :
         steps[i].stepId = TemplateOf(p).startStep /\ steps[i].status = "completed"

\* C5: for a decision step with nextSteps = <<approve -> A, reject -> B>>,
\* completing with decision approve creates one StepInstance, for A, and
\* completing with a decision that matches no condition creates one
\* StepInstance, for the first entry A, and succeeds.
ApproveReject(def) ==
  /\ def.type = "decision"
  /\ def.nextSteps = <<Tr("approve", "A"), Tr("reject", "B")>>

C5_DecisionRouting ==
  [][\A s \in 1..Len(steps), u \in Actors, d \in {"approve", "unknown"} :
       LET p == steps[s].processInstanceId
       IN (/\ completeStep(s, u, d)
           /\ steps[s].status = "in_progress"
           /\ steps[s].assignedTo = u
           /\ ApproveReject(FindStep(TemplateOf(p), steps[s].stepId))) =>
             /\ last'.result = "ok"
             /\ Len(steps') = Len(steps) + 1
             /\ steps'[Len(steps')].stepId = "A"
             /\ steps'[Len(steps')].processInstanceId = p
             /\ steps'[s].decision = d]_vars

C5_RoutedByFallback ==
  \E s \in 1..Len(steps) :
    /\ last = Reply("completeStep", "ok")
    /\ steps[s].stepId = "D"
    /\ steps[s].decision = "unknown"
    /\ Len(steps) = s + 1
    /\ steps[s + 1].stepId = "A"

\* C6: once a process instance is completed or cancelled, no operation
\* changes its status, completes it a second time (writes another
\* process_completed row) or creates a StepInstance for it.
C6_TerminalIsFinal ==
  [][\A p \in ProcIds :
       procs[p].status \in {"completed", "cancelled"} =>
          /\ procs'[p].status = procs[p].status
          /\ HistCount(history', p, "process_completed")
               = HistCount(history, p, "process_completed")
          /\ StepsOfIn(steps', p) = StepsOfIn(steps, p)]_vars

C8_OneLiveInstancePerStepId ==
  \A i, j \in 1..Len(steps) :
    (/\ i # j
     /\ steps[i].processInstanceId = steps[j].processInstanceId
     /\ steps[i].stepId = steps[j].stepId
     /\ steps[i].status \in {"pending", "in_progress"})
      => steps[j].status \notin {"pending", "in_progress"}

\* C9: a StepInstance changes status only by pending -> in_progress
\* (startStep), in_progress -> completed (completeStep), pending or
\* in_progress -> skipped (skipStep), pending or in_progress -> cancelled
\* (cancelProcess) and in_progress -> pending (reassignStep); a completed,
\* skipped or cancelled step keeps its status, and no StepInstance disappears.
StatusMove(op, from, to) ==
  \/ op = "startStep" /\ from = "pending" /\ to = "in_progress"
  \/ op = "completeStep" /\ from = "in_progress" /\ to = "completed"
  \/ op = "skipStep" /\ from \in {"pending", "in_progress"} /\ to = "skipped"
  \/ op = "cancelProcess" /\ from \in {"pending", "in_progress"} /\ to = "cancelled"
  \/ op = "reassignStep" /\ from = "in_progress" /\ to = "pending"

C9_StepStateMachine ==
  [][/\ Len(steps') >= Len(steps)
     /\ \A i \in 1..Len(steps) :
          steps'[i].status # steps[i].status =>
             StatusMove(last'.op, steps[i].status, steps'[i].status)]_vars

C9_ReassignedBackToPending ==
  \E i \in 1..Len(steps) :
    /\ last = Reply("reassignStep", "Error")
    /\ steps[i].status = "pending"
    /\ \E e \in BagToSet(history) : e.action = "step_started" /\ e.stepInstanceId = i

\* C10: escalateOverdueTasks on an overdue, unescalated, pending or
\* in-progress step, with an active manager or admin, leaves the step
\* escalated at level 1 with one escalationHistory entry and one
\* task_escalated notification; a pass that finds no such step changes nothing.
C10_EscalatesOnce ==
  [][escalateOverdueTasks /\ Len(activeUsers) > 0 =>
       /\ \A i \in 1..Len(steps) :
            (/\ steps[i].status \in {"pending", "in_progress"}
             /\ steps[i].dueDate # NoDate /\ steps[i].dueDate < now
             /\ ~steps[i].escalated) =>
               /\ steps'[i].escalated
               /\ steps'[i].escalationLevel = 1
               /\ Len(steps'[i].escalationHistory) = 1
               /\ NotifCount(notifs', i, "task_escalated") = 1
       /\ (\A i \in 1..Len(steps) : steps[i].escalated \/ steps[i].dueDate = NoDate)
             => StoreUnchanged]_vars

\* C11: every StepInstance has an escalationLevel between 0 and 3, whatever
\* cascade cycles, overdue checks, escalateOverdueTasks runs and manual
\* escalateStep calls were made.
C11_LevelWithinBounds ==
  \A i \in 1..Len(steps) :
    /\ steps[i].escalationLevel >= 0
    /\ steps[i].escalationLevel <= MaxEscalationLevel

\* C12: no step of the system lowers a StepInstance's escalationLevel or
\* clears its escalated flag, and a cascade cycle leaves a step at level 3
\* as it is and sends no task_escalated notification for it.
C12_EscalationMonotonic ==
  [][\A i \in 1..Len(steps) :
       /\ steps'[i].escalationLevel >= steps[i].escalationLevel
       /\ steps[i].escalated => steps'[i].escalated
       /\ (processTaskEscalations /\ steps[i].escalationLevel = MaxEscalationLevel) =>
            /\ steps'[i] = steps[i]
            /\ NotifCount(notifs', i, "task_escalated")
                 = NotifCount(notifs, i, "task_escalated")]_vars

\* a live step at level 3, old enough for the cascade, right after a cascade cycle
C12_CascadeAtTopLevel ==
  \E i \in 1..Len(steps) :
    /\ last = Reply("processTaskEscalations", "ok")
    /\ Live(steps[i])
    /\ steps[i].escalated
    /\ steps[i].dueDate # NoDate /\ steps[i].dueDate < now - EscalationThresholdHours
    /\ steps[i].escalationLevel = MaxEscalationLevel

\* C13: checkOverdueTasks leaves an already escalated step and its
\* notifications as they are, and no step ever has more than one
\* task_overdue notification.
C13_OverdueCheckOnce ==
  [][\A i \in 1..Len(steps) :
       /\ NotifCount(notifs', i, "task_overdue") <= 1
       /\ (checkOverdueTasks /\ steps[i].escalated) =>
            /\ steps'[i] = steps[i]
            /\ NotifCount(notifs', i, "task_overdue")
                 = NotifCount(notifs, i, "task_overdue")]_vars

\* an overdue check that ran after the step it had marked was cascaded
C13_CheckedAgainAfterCascade ==
  \E i \in 1..Len(steps) :
    /\ last = Reply("checkOverdueTasks", "ok")
    /\ Live(steps[i])
    /\ steps[i].escalated
    /\ steps[i].escalationLevel >= 1
    /\ NotifCount(notifs, i, "task_overdue") = 1

StepHistCount(h, sid, action) ==
  SumCopies(h, {e \in BagToSet(h) : e.stepInstanceId = sid /\ e.action = action})

NextIdsOf(def) == {def.nextSteps[k].stepId : k \in 1..Len(def.nextSteps)}

\* C14: when two completeStep calls both passed canComplete on the same
\* in-progress step before either saved, the call that saves second runs
\* the routing again: it creates the next StepInstances once more, so that
\* the one completion has two successor StepInstances.
C14_StaleCheckRoutesAgain ==
  [][\A c \in Callers, o \in SaveOutcomes :
       LET call == calls[c]
           p == call.stepInstance.processInstanceId
           def == FindStep(TemplateOf(p), call.stepInstance.stepId)
       IN (/\ completeStepFinish(c, o)
           /\ steps[call.sid].status = "completed"
           /\ Len(def.nextSteps) > 0) =>
             /\ Len(steps') > Len(steps)
             /\ \A i \in (Len(steps) + 1)..Len(steps') :
                  /\ steps'[i].processInstanceId = p
                  /\ steps'[i].stepId \in NextIdsOf(def)
             /\ Cardinality({i \in StepsOfIn(steps', p) :
                               steps'[i].stepId \in NextIdsOf(def)}) >= 2
             /\ StepHistCount(history', call.sid, "step_completed") >= 2]_vars

\* one step completed twice, with two StepInstances of the same next step
C14_DuplicateNextStep ==
  \E s, i, j \in 1..Len(steps) :
    /\ \A c \in Callers : calls[c] = Idle
    /\ steps[s].status = "completed"
    /\ StepHistCount(history, s, "step_completed") = 2
    /\ i < j
    /\ steps[i].stepId = steps[j].stepId
    /\ steps[i].processInstanceId = steps[s].processInstanceId
    /\ steps[j].processInstanceId = steps[s].processInstanceId
    /\ steps[i].stepId \in
         NextIdsOf(FindStep(TemplateOf(steps[s].processInstanceId), steps[s].stepId))

\* a step left behind by a crash of completeStep: saved as completed while
\* its process is active and still lists it in currentSteps
Crashed(st, pr, s) ==
  /\ st[s].status = "completed"
  /\ pr[st[s].processInstanceId].status = "active"
  /\ \E k \in 1..Len(pr[st[s].processInstanceId].currentSteps) :
        pr[st[s].processInstanceId].currentSteps[k] = st[s].stepId

\* C15 as stated: completeStep called again on a step that a crashed call
\* left completed runs the routing again and creates the next StepInstances.
C15_ReinvocationRoutesAgain ==
  [][\A s \in 1..Len(steps), u \in Actors, d \in Decisions :
       (completeStep(s, u, d) /\ Crashed(steps, procs, s)) =>
          /\ last'.result = "ok"
          /\ Len(steps') > Len(steps)]_vars

\* C15: completeStep called again on a step that a crashed call left
\* completed is rejected with Forbidden by canComplete and changes nothing:
\* no routing runs and no StepInstance is created.
C15_ReinvocationRejected ==
  [][\A s \in 1..Len(steps), u \in Actors, d \in Decisions :
       (completeStep(s, u, d) /\ Crashed(steps, procs, s)) =>
          /\ last'.result = "Forbidden"
          /\ StoreUnchanged]_vars

\* the only step of the process was left completed by a crash and the call
\* made after it was rejected
C15_RejectedAfterCrash ==
  /\ last = Reply("completeStep", "Forbidden")
  /\ Len(steps) = 1
  /\ Crashed(steps, procs, 1)
  /\ Cardinality({i \in 1..Len(steps) : steps[i].processInstanceId = steps[1].processInstanceId}) = 1

\* C16: while notifications cannot be created, a completeStep that
\* canComplete allows still succeeds, leaves the step completed, and leaves
\* the process completed when the routing ends the process.
C16_SinkFailureNotPropagated ==
  [][\A s \in 1..Len(steps), u \in Actors, d \in Decisions :
       (completeStep(s, u, d) /\ ~sinkUp /\ canComplete(steps[s], u)) =>
          LET p == steps[s].processInstanceId
              t == TemplateOf(p)
              ids == determineNextSteps(FindStep(t, steps[s].stepId), steps'[s].decision)
          IN /\ last'.result = "ok"
             /\ steps'[s].status = "completed"
             /\ notifs' = notifs
             /\ (\A k \in 1..Len(ids) : ids[k] \in t.endSteps)
                  => procs'[p].status = "completed"]_vars

\* C17: stopJob(name) and restartJob(name) leave every other entry of the
\* jobs map and the running tasks of every other name as they are;
\* restartJob of one of the scheduler's job names returns true and leaves a
\* running job registered under the name; for a name that is not registered
\* stopJob returns false and changes nothing, and for a name the scheduler
\* does not know restartJob returns false and changes nothing.
C17_JobsIndependent ==
  [][\A n \in RequestNames :
       LET OthersUnchanged == \A m \in JobNames \ {n} :
                                 jobs'[m] = jobs[m] /\ cronTasks'[m] = cronTasks[m]
       IN /\ stopJob(n) =>
               /\ OthersUnchanged
               /\ (n \notin JobNames \/ ~jobs[n]) =>
                     last'.result = "false" /\ UNCHANGED sched
          /\ restartJob(n) =>
               /\ OthersUnchanged
               /\ n \in JobNames =>
                     /\ last'.result = "true"
                     /\ jobs'[n]
                     /\ cronTasks'[n] >= 1
               /\ n \notin JobNames =>
                     last'.result = "false" /\ UNCHANGED sched]_vars

\* C18: startProcess fails with NotFound when no instance has the id and
\* when the draft instance's template is missing, and in both cases changes
\* no process instance, StepInstance, history row or notification.
C18_StartMissingIsNotFound ==
  [][\A p \in ProcIds \cup UnknownProcIds :
       (/\ startProcess(p, InitiatedBy)
        /\ \/ p \notin DOMAIN procs
           \/ /\ procs[p].status = "draft"
              /\ procs[p].processTemplateId \notin TemplateIds) =>
          /\ last'.result = "NotFound"
          /\ StoreUnchanged]_vars

\* C19: determineNextSteps returns, in nextSteps order, the stepIds of all
\* transitions whose condition is absent, empty, "true" or equal to the
\* decision; if there is none and nextSteps is not empty, the stepId of the
\* first transition alone; the empty list exactly when nextSteps is empty;
\* and every id it returns is the stepId of a transition.
C19_RoutingPrecedence ==
  route.called =>
    LET ns == route.templateStep.nextSteps
        d == route.decision
        out == route.result
        Holds(e) == \/ e.condition \in {Null, "", "true"}
                    \/ d # Null /\ e.condition = d
        sel == SelectSeq(ns, Holds)
    IN /\ Len(sel) > 0 => out = [k \in 1..Len(sel) |-> sel[k].stepId]
       /\ (Len(sel) = 0 /\ Len(ns) > 0) => out = <<ns[1].stepId>>
       /\ out = <<>> <=> ns = <<>>
       /\ \A k \in 1..Len(out) : \E i \in 1..Len(ns) : out[k] = ns[i].stepId

\* a call in which two of three transitions hold, one of them by the decision
C19_TwoOfThreeRouted ==
  /\ route.called
  /\ Len(route.templateStep.nextSteps) = 3
  /\ route.decision = "approve"
  /\ route.templateStep.nextSteps[1] = Tr("approve", "B")
  /\ route.templateStep.nextSteps[2] = Tr("reject", "A")
  /\ route.result = <<"B", "A">>

\* C20: a successful completeStep on a step of an active process takes the
\* step's id out of currentSteps and creates one StepInstance per id that
\* determineNextSteps returns; it completes the process exactly when that
\* list is empty or holds end steps only; otherwise the process stays
\* active, currentSteps ends with the new ids and completionPercentage is
\* 100 * completed / all StepInstances of the process, rounded, in 0..100.
C20_StepCompletionRouting ==
  [][\A s \in 1..Len(steps), u \in Actors, d \in Decisions :
       LET p == steps[s].processInstanceId
           t == TemplateOf(p)
           ids == determineNextSteps(FindStep(t, steps[s].stepId), steps'[s].decision)
           ends == \A k \in 1..Len(ids) : ids[k] \in t.endSteps
           cur0 == SelectSeq(procs[p].currentSteps, LAMBDA x : x # steps[s].stepId)
           all == Cardinality(StepsOfIn(steps', p))
           completed == Cardinality({i \in StepsOfIn(steps', p) :
                                       steps'[i].status = "completed"})
           pct == procs'[p].completionPercentage
       IN (/\ completeStep(s, u, d)
           /\ canComplete(steps[s], u)
           /\ procs[p].status = "active") =>
             /\ Len(steps') = Len(steps) + Len(ids)
             /\ \A k \in 1..Len(ids) :
                  /\ steps'[Len(steps) + k].stepId = ids[k]
                  /\ steps'[Len(steps) + k].processInstanceId = p
             /\ ends <=> HistCount(history', p, "process_completed")
                           = HistCount(history, p, "process_completed") + 1
             /\ ends => /\ procs'[p].status = "completed"
                        /\ procs'[p].currentSteps = <<>>
                        /\ pct = 100
             /\ ~ends => /\ procs'[p].status = "active"
                         /\ procs'[p].currentSteps = cur0 \o ids
                         /\ pct \in 0..100
                         /\ 200 * completed - all < 2 * pct * all
                         /\ 2 * pct * all <= 200 * completed + all]_vars

\* two of three StepInstances completed: 67 percent, with B in flight
C20_TwoThirdsDone ==
  \E p \in ProcIds :
    /\ last = Reply("completeStep", "ok")
    /\ procs[p].status = "active"
    /\ procs[p].currentSteps = <<"B">>
    /\ Cardinality(StepsOfIn(steps, p)) = 3
    /\ procs[p].completionPercentage = 67

\* the stepIds that have a pending or in-progress StepInstance of process p
LiveStepIds(st, p) == {st[i].stepId : i \in {j \in StepsOfIn(st, p) : Live(st[j])}}

SeqToSet(s) == {s[k] : k \in 1..Len(s)}

\* C21: for every process instance, currentSteps holds exactly the stepIds
\* that have a pending or in-progress StepInstance of that process.
C21_CurrentStepsAreLive ==
  \A p \in ProcIds : SeqToSet(procs[p].currentSteps) = LiveStepIds(steps, p)

\* C22: one escalateOverdueTasks run, with an active manager or admin,
\* handles every pending or in-progress step that is past its dueDate and
\* not escalated: it leaves each of them escalated at level 1 with one more
\* escalationHistory entry, one more step_escalated history row with
\* performedBy = null, and one more high-priority task_escalated notification
\* to the first active manager or admin.
C22_EscalatesEveryOverdueStep ==
  [][escalateOverdueTasks /\ Len(activeUsers) > 0 =>
       \A i \in 1..Len(steps) :
         Overdue(steps[i]) =>
           LET row == HistoryEntry(steps[i].processInstanceId, i, "step_escalated",
                                   Null, Null, Null)
               note == Notification(activeUsers[1], "task_escalated",
                                    steps[i].processInstanceId, i, "high")
           IN /\ steps'[i].escalated
              /\ steps'[i].escalationLevel = 1
              /\ Len(steps'[i].escalationHistory) = Len(steps[i].escalationHistory) + 1
              /\ CopiesIn(row, history') = CopiesIn(row, history) + 1
              /\ CopiesIn(note, notifs') = CopiesIn(note, notifs) + 1]_vars

\* a StepInstance with its three escalation fields blanked
SansEscalation(si) ==
  [si EXCEPT !.escalated = FALSE, !.escalationLevel = 0, !.escalationHistory = <<>>]

C24_CascadeRecordsHistory ==
  [][processTaskEscalations =>
       \A i \in 1..Len(steps) :
         NeedsEscalation(steps[i]) =>
           /\ steps'[i].escalationLevel = steps[i].escalationLevel + 1
           /\ \A k \in 1..Len(activeUsers) :
                LET note == Notification(activeUsers[k], "task_escalated",
                                         steps[i].processInstanceId, i, "urgent")
                IN CopiesIn(note, notifs') = CopiesIn(note, notifs) + 1
           /\ \/ Len(steps'[i].escalationHistory) = Len(steps[i].escalationHistory) + 1
              \/ StepHistCount(history', i, "step_escalated")
                   = StepHistCount(history, i, "step_escalated") + 1]_vars

\* determineNextSteps with the decision-step branch taken out
determineNextSteps_SansDecisionBranch(templateStep, decision) ==
  LET ns == templateStep.nextSteps
      r1 == CollectNext(ns, decision)
      r3 == IF Len(r1) = 0 /\ Len(ns) > 0 THEN <<ns[1].stepId>> ELSE r1
  IN IF Len(ns) = 0 THEN <<>> ELSE r3

\* C25: for every step definition, step type and decision, determineNextSteps
\* returns the list it would return without its decision-step branch.
C25_DecisionBranchNeverContributes ==
  route.called =>
    route.result = determineNextSteps_SansDecisionBranch(route.templateStep, route.decision)

\* a call on a decision step with a decision, in which no transition held, so
\* that the decision-step branch was entered, and the default path was taken
C25_DecisionBranchEntered ==
  /\ route.called
  /\ route.templateStep.type = "decision"
  /\ route.decision = "approve"
  /\ route.templateStep.nextSteps = <<Tr("reject", "A"), Tr("reject", "B")>>
  /\ route.result = <<"A">>

\* C26: a process instance whose status is completed has no pending or
\* in-progress StepInstance.
C26_CompletedHasNoLiveStep ==
  \A p \in ProcIds :
    procs[p].status = "completed" => \A i \in StepsOfIn(steps, p) : ~Live(steps[i])

\* C27: when the users start every pending step and complete every step in
\* progress, a process that was started (is active) eventually is completed,
\* also when a service task lies on its path.
C27_StartedProcessCompletes ==
  \A p \in ProcIds : (procs[p].status = "active") ~> (procs[p].status = "completed")

\* C28: skipStep on a pending or in-progress step of an active process
\* succeeds, leaves the step skipped, takes its id out of currentSteps, and
\* creates one StepInstance per id that determineNextSteps returns, completing
\* the process when that list is empty or holds end steps only.
C28_SkipContinuesWorkflow ==
  [][\A s \in 1..Len(steps), m \in Managers :
       LET p == steps[s].processInstanceId
           t == TemplateOf(p)
           ids == determineNextSteps(FindStep(t, steps[s].stepId), steps[s].decision)
           ends == \A k \in 1..Len(ids) : ids[k] \in t.endSteps
       IN (/\ skipStep(s, m)
           /\ Live(steps[s])
           /\ procs[p].status = "active") =>
             /\ last'.result = "ok"
             /\ steps'[s].status = "skipped"
             /\ steps[s].stepId \notin SeqToSet(procs'[p].currentSteps)
             /\ Len(steps') = Len(steps) + Len(ids)
             /\ \A k \in 1..Len(ids) :
                  /\ steps'[Len(steps) + k].stepId = ids[k]
                  /\ steps'[Len(steps) + k].processInstanceId = p
             /\ ends => procs'[p].status = "completed"]_vars

OverdueNotifCount(n, sid) ==
  NotifCount(n, sid, "task_overdue") + NotifCount(n, sid, "task_escalated")

\* C29: however a scheduler pass interleaves with completeStep, skipStep and
\* cancelProcess, a step whose stored status is completed, skipped or
\* cancelled is never marked escalated, never gets a higher escalationLevel
\* and never gets a task_overdue or task_escalated notification, and no turn
\* of a pass changes the status of a step.
C29_EscalationOnlyOfLiveSteps ==
  [][\A i \in 1..Len(steps) :
       /\ ~Live(steps[i]) =>
            /\ steps'[i].escalated = steps[i].escalated
            /\ steps'[i].escalationLevel = steps[i].escalationLevel
            /\ OverdueNotifCount(notifs', i) = OverdueNotifCount(notifs, i)
       /\ (checkOverdueTasksTurn \/ processTaskEscalationsTurn \/ escalateOverdueTasksTurn)
            => steps'[i].status = steps[i].status]_vars

\* every running cron task is the one the jobs map holds under its name
JobsTracked ==
  \A n \in JobNames : cronTasks[n] = IF jobs[n] THEN 1 ELSE 0

\* C30: under any sequence of initialize, stopJob, restartJob and stopAll,
\* every running cron job is registered in the jobs map under its name, at
\* most one per name; initialize on an initialized service creates no job;
\* after stopAll the map is empty, no job is running and the service is not
\* initialized, so that initialize sets the jobs up again.
C30_SchedulerLifecycle ==
  [][/\ JobsTracked'
     /\ (initialize /\ isInitialized) => UNCHANGED sched
     /\ stopAll => /\ jobs' = NoJobs
                   /\ cronTasks' = NoTasks
                   /\ ~isInitialized']_vars

====
